---- MODULE Spec2Model ----
(***************************************************************************)
(* A model of pic_mounter/draw.py: the anti-aliased circle and line        *)
(* rasterizers, the coverage function, the colour mixing algebra and the   *)
(* draw dispatchers.                                                       *)
(*                                                                         *)
(* Numbers.  Python floats are modelled as exact reals.  Lengths and       *)
(* coordinates are integers counting units of 1/Den pixel, so the source's *)
(* constant 1/2 is Res units.  A distance is the root of a rational, kept  *)
(* as [s, n, m] for s * sqrt(n / m) units (s = 1 or -1, n >= 0, m > 0);    *)
(* every comparison the code makes on it is decided exactly by squaring.   *)
(***************************************************************************)
EXTENDS Integers, Sequences, FiniteSets, TLC

VARIABLES
    call,       \* the operation called last, with its arguments
    ret,        \* what that call returned, or the exception it raised
    image,      \* the destination buffer of the draw dispatchers
    composite,  \* the arguments of the last Image.alpha_composite on image
    cache       \* lru_cache of _get_circle_image_with_cache: key -> result

vars == <<call, ret, image, composite, cache>>

-----------------------------------------------------------------------------
(* Bounds of the model *)

Res == 1                \* units per half pixel
Den == 2 * Res          \* units per pixel
MaxRadius == 3          \* largest radius of calc_alpha and of a circle, in units
MaxDist2 == 30          \* largest numerator of a squared distance given to calc_alpha
MaxDistDen == 2         \* largest denominator of a squared distance given to calc_alpha
MaxCoord == 3           \* coordinates of the geometry calls are 0..MaxCoord units
MaxDrawCoord == 2       \* coordinates of the endpoints given to draw_line are 0..MaxDrawCoord units
MaxLineCoord == 4       \* coordinates of the endpoints of a line are 0..MaxLineCoord units
MaxHalfWidth == 2       \* a line's width is 2, 4, ..., 2 * MaxHalfWidth units
RecursionLimit == 3     \* the interpreter refuses a call deeper than RecursionLimit activations
ImageSize == 3          \* the destination buffer is ImageSize x ImageSize pixels
MaxMm == 3              \* positions given to pos_mm_to_pixel are 0..MaxMm millimetres
MixDen == 2             \* channels, alphas and coverages of mix_color are k / MixDen

-----------------------------------------------------------------------------
(* Arithmetic *)

Abs(a) == IF a < 0 THEN -a ELSE a
Min(a, b) == IF a <= b THEN a ELSE b
Max(a, b) == IF a >= b THEN a ELSE b

\* math.floor and math.ceil of the rational a / b, b > 0
Floor(a, b) == a \div b
Ceil(a, b) == -((-a) \div b)

\* Python's round() of the rational a / b, b > 0: nearest, ties to even
Round(a, b) ==
    LET f == (2 * a + b) \div (2 * b)
    IN  IF (2 * a + b) % (2 * b) = 0 /\ f % 2 = 1 THEN f - 1 ELSE f

\* the largest k in lo..(hi - 1) with k * k <= n, given lo * lo <= n < hi * hi
RECURSIVE RootBetween(_, _, _)
RootBetween(n, lo, hi) ==
    IF hi - lo <= 1 THEN lo
    ELSE LET mid == (lo + hi) \div 2
         IN  IF mid * mid <= n THEN RootBetween(n, mid, hi)
                               ELSE RootBetween(n, lo, mid)

\* floor(sqrt(n)) for n >= 0
FloorSqrt(n) == RootBetween(n, 0, n + 1)

\* Python's round() of (p + s * sqrt(q)) / d, for s = 1 or -1, q >= 0, d > 0
RoundSurd(p, s, q, d) ==
    LET below == FloorSqrt(4 * q)
        exact == below * below = 4 * q
        root == IF s = 1 \/ exact THEN below ELSE below + 1
        f == (2 * p + d + s * root) \div (2 * d)
        tie == exact /\ (2 * p + d + s * root) % (2 * d) = 0
    IN  IF tie /\ f % 2 = 1 THEN f - 1 ELSE f

\* the rational n / d, d > 0, and equality of two rationals
Rat(n, d) == [num |-> n, den |-> d]
RatEq(p, q) == p.num * q.den = q.num * p.den

\* the distance s * sqrt(n / m), and the rational distance a units
Dist(s, n, m) == [s |-> s, n |-> n, m |-> m]
DistOfInt(a) == Dist(IF a < 0 THEN -1 ELSE 1, a * a, 1)

\* d <= t and d >= t for a distance d and an integer t (units)
DistLeqInt(d, t) ==
    IF d.s = 1 THEN t >= 0 /\ d.n <= t * t * d.m
               ELSE t >= 0 \/ d.n >= t * t * d.m
DistGeqInt(d, t) ==
    IF d.s = 1 THEN t <= 0 \/ d.n >= t * t * d.m
               ELSE t <= 0 /\ d.n <= t * t * d.m

\* d1 <= d2 for two distances
DistLeq(d1, d2) ==
    CASE d1.s = -1 /\ d2.s = 1  -> TRUE
      [] d1.s = 1  /\ d2.s = -1 -> d1.n = 0 /\ d2.n = 0
      [] d1.s = 1  /\ d2.s = 1  -> d1.n * d2.m <= d2.n * d1.m
      [] d1.s = -1 /\ d2.s = -1 -> d1.n * d2.m >= d2.n * d1.m

-----------------------------------------------------------------------------
(* Coverage model.  A coverage value is [c, d] for (c - d) / Den, c an     *)
(* integer number of units and d a distance.                               *)

Alpha(c, d) == [c |-> c, d |-> d]
AlphaOne == Alpha(Den, DistOfInt(0))
AlphaZero == Alpha(0, DistOfInt(0))

\* the comparisons alpha == 0, alpha == 1, 0 <= alpha, alpha <= 1
AlphaIsZero(a) == DistLeqInt(a.d, a.c) /\ DistGeqInt(a.d, a.c)
AlphaIsOne(a) == DistLeqInt(a.d, a.c - Den) /\ DistGeqInt(a.d, a.c - Den)
AlphaInUnit(a) == DistLeqInt(a.d, a.c) /\ DistGeqInt(a.d, a.c - Den)

\* a1 >= a2, for coverage values of which one is rational or both share c
AlphaGeq(a1, a2) ==
    CASE a2.d.n = 0 -> DistLeqInt(a1.d, a1.c - a2.c)
      [] a1.d.n = 0 -> DistGeqInt(a2.d, a2.c - a1.c)
      [] OTHER      -> a1.c = a2.c /\ DistLeq(a1.d, a2.d)

\* calc_alpha with a plausible fault: the ramp forgets the half pixel
calc_alpha_NoHalf(radius, distance) ==
    IF DistLeqInt(distance, radius - Res) THEN AlphaOne
    ELSE IF DistGeqInt(distance, radius + Res) THEN AlphaZero
    ELSE Alpha(radius, distance)

calc_alpha(radius, distance) ==
    IF DistLeqInt(distance, radius - Res) THEN AlphaOne
    ELSE IF DistGeqInt(distance, radius + Res) THEN AlphaZero
    ELSE Alpha(radius + Res, distance)

-----------------------------------------------------------------------------
(* Calls and their outcomes *)

NoCall == [op |-> "none"]
NoRet == [kind |-> "none"]
Returned(v) == [kind |-> "value", value |-> v]
Raised(e) == [kind |-> "raise", error |-> e]


-----------------------------------------------------------------------------
(* Colour compositing algebra.  A channel, an alpha and a coverage are     *)
(* k / MixDen with k in 0..MixDen; results are rationals.                  *)

Mix(k) == Rat(k, MixDen)

\* the divisor of mix_color_number, times MixDen^3
MixDivisor(foreground_alpha, background_alpha, alpha) ==
    background_alpha * MixDen * MixDen + alpha * foreground_alpha * MixDen
        - background_alpha * alpha * foreground_alpha

mix_color_number(foreground_number, foreground_alpha, background_number, background_alpha, alpha) ==
    LET dividend == background_number * background_alpha
                        * (MixDen * MixDen - alpha * foreground_alpha)
                    + foreground_number * alpha * foreground_alpha * MixDen
        divisor == MixDivisor(foreground_alpha, background_alpha, alpha)
    IN  IF divisor = 0 THEN Raised("ZeroDivisionError")
        ELSE Returned(Rat(dividend, divisor * MixDen))

mix_color_alpha(foreground_alpha, background_alpha, alpha) ==
    Rat(MixDivisor(foreground_alpha, background_alpha, alpha),
        MixDen * MixDen * MixDen)

\* foreground and background are <<r, g, b, a>>; the generator of the three
\* channels is evaluated before the alpha, so the first failing division
\* is what mix_color raises
mix_color(foreground, background, alpha) ==
    IF alpha = 0 THEN Returned([i \in 1..4 |-> Mix(background[i])])
    ELSE IF alpha = MixDen THEN Returned([i \in 1..4 |-> Mix(foreground[i])])
    ELSE LET number(i) == mix_color_number(foreground[i], foreground[4],
                                           background[i], background[4], alpha)
         IN  IF \E i \in 1..3 : number(i).kind = "raise"
             THEN Raised("ZeroDivisionError")
             ELSE Returned([i \in 1..4 |->
                      IF i <= 3 THEN number(i).value
                      ELSE mix_color_alpha(foreground[4], background[4], alpha)])

-----------------------------------------------------------------------------
(* Geometry primitives.  A point or a vector is <<x, y>> in units; a       *)
(* segment is <<A, B>>.                                                    *)

dot_product_2d(vector_0, vector_1) ==
    vector_0[1] * vector_1[1] + vector_0[2] * vector_1[2]

\* math.dist of two points
math_dist(p, q) ==
    Dist(1, (p[1] - q[1]) * (p[1] - q[1]) + (p[2] - q[2]) * (p[2] - q[2]), 1)

\* abs_ = True, the only use: |A x + B y + C| / hypot(A, B); the division
\* by hypot(0, 0) = 0.0 raises
distance_point_to_line_ABC(point, line_A, line_B, line_C) ==
    LET value == line_A * point[1] + line_B * point[2] + line_C
        hypot2 == line_A * line_A + line_B * line_B
    IN  IF hypot2 = 0 THEN Raised("ZeroDivisionError")
        ELSE Returned(Dist(1, value * value, hypot2))

distance_point_to_line_xy(point, line_xy) ==
    LET x0 == line_xy[1][1]
        y0 == line_xy[1][2]
        x1 == line_xy[2][1]
        y1 == line_xy[2][2]
    IN  distance_point_to_line_ABC(point, y1 - y0, x0 - x1, x1 * y0 - x0 * y1)

is_in_A_side(point, line_xy) ==
    LET vector_AB == <<line_xy[2][1] - line_xy[1][1], line_xy[2][2] - line_xy[1][2]>>
        vector_AP == <<point[1] - line_xy[1][1], point[2] - line_xy[1][2]>>
    IN  dot_product_2d(vector_AB, vector_AP) < 0

\* is_in_B_side with a plausible fault: > for >=
is_in_B_side_Strict(point, line_xy) ==
    LET vector_AB == <<line_xy[2][1] - line_xy[1][1], line_xy[2][2] - line_xy[1][2]>>
        vector_BP == <<point[1] - line_xy[2][1], point[2] - line_xy[2][2]>>
    IN  dot_product_2d(vector_AB, vector_BP) > 0

is_in_B_side(point, line_xy) ==
    LET vector_AB == <<line_xy[2][1] - line_xy[1][1], line_xy[2][2] - line_xy[1][2]>>
        vector_BP == <<point[1] - line_xy[2][1], point[2] - line_xy[2][2]>>
    IN  dot_product_2d(vector_AB, vector_BP) >= 0

\* the branch of distance_point_to_line_segment taken
segment_branch(point, line_xy) ==
    IF is_in_A_side(point, line_xy) THEN "A"
    ELSE IF is_in_B_side(point, line_xy) THEN "B"
    ELSE "middle"

distance_point_to_line_segment(point, line_xy) ==
    CASE segment_branch(point, line_xy) = "A" -> Returned(math_dist(point, line_xy[1]))
      [] segment_branch(point, line_xy) = "B" -> Returned(math_dist(point, line_xy[2]))
      [] OTHER -> distance_point_to_line_xy(point, line_xy)

-----------------------------------------------------------------------------
(* Colours and patches.  A pixel is <<r, g, b, a>> with integer channels;  *)
(* a patch is an RGBA image [width, height, pixels], its pixels indexed by *)
(* <<x, y>> with the origin at the top left.                               *)

Colours == {"red", "#0000ff80"}

\* ImageColor.getcolor(color, 'RGBA')
getcolor(color) ==
    CASE color = "red"       -> <<255, 0, 0, 255>>
      [] color = "#0000ff80" -> <<0, 0, 255, 128>>

Transparent == <<0, 0, 0, 0>>

\* the pixel positions of a width x height image, and Image.new painted by
\* a function on them
PixelsOf(width, height) == (0..(width - 1)) \X (0..(height - 1))
NewImage(width, height, pixels) ==
    [width |-> width, height |-> height, pixels |-> pixels]

\* q * d <= t and q * d >= t, for a distance d and integers q >= 0 and t
ScaledLeqInt(q, d, t) ==
    IF d.s = 1 THEN t >= 0 /\ q * q * d.n <= t * t * d.m
               ELSE t >= 0 \/ q * q * d.n >= t * t * d.m
ScaledGeqInt(q, d, t) ==
    IF d.s = 1 THEN t <= 0 \/ q * q * d.n >= t * t * d.m
               ELSE t <= 0 /\ q * q * d.n <= t * t * d.m

\* color_alpha * alpha >= k - 1/2, that is 2 * color_alpha * d <= the bound
\* below, where alpha is (c - d) / Den
RoundBound(color_alpha, alpha, k) == 2 * color_alpha * alpha.c - (2 * k - 1) * Den
ReachesHalf(color_alpha, alpha, k) ==
    ScaledLeqInt(2 * color_alpha, alpha.d, RoundBound(color_alpha, alpha, k))
IsHalf(color_alpha, alpha, k) ==
    /\ ReachesHalf(color_alpha, alpha, k)
    /\ ScaledGeqInt(2 * color_alpha, alpha.d, RoundBound(color_alpha, alpha, k))

\* the largest k in lo..(hi - 1) with color_alpha * alpha >= k - 1/2, given
\* that lo is one and hi is none
RECURSIVE LastReached(_, _, _, _)
LastReached(color_alpha, alpha, lo, hi) ==
    IF hi - lo <= 1 THEN lo
    ELSE LET mid == (lo + hi) \div 2
         IN  IF ReachesHalf(color_alpha, alpha, mid)
             THEN LastReached(color_alpha, alpha, mid, hi)
             ELSE LastReached(color_alpha, alpha, lo, mid)

\* RoundCoverage with a plausible fault: int(color_alpha * alpha), the fraction dropped
RoundCoverage_Truncate(color_alpha, alpha) ==
    LET k == LastReached(color_alpha, alpha, 0, color_alpha + 1)
    IN  IF ScaledLeqInt(2 * color_alpha, alpha.d, 2 * color_alpha * alpha.c - 2 * k * Den)
        THEN k ELSE k - 1

\* round(color_alpha * alpha) for a coverage alpha in [0, 1]: the nearest
\* integer, a tie going to the even one
RoundCoverage(color_alpha, alpha) ==
    LET k == LastReached(color_alpha, alpha, 0, color_alpha + 1)
    IN  IF IsHalf(color_alpha, alpha, k) /\ k % 2 = 1 THEN k - 1 ELSE k

-----------------------------------------------------------------------------
(* Circle rasterizer *)

\* _get_circle_image with a plausible fault: the right and bottom edges are floored
_get_circle_image_FloorRight(center, radius, color) ==
    LET color_rgba == getcolor(color)
        left_x == Floor(center[1] - radius, Den)
        right_x == Floor(center[1] + radius, Den)
        top_y == Floor(center[2] - radius, Den)
        bottom_y == Floor(center[2] + radius, Den)
        pixel(x_in_layer, y_in_layer) ==
            LET x == (x_in_layer + left_x) * Den + Res
                y == (y_in_layer + top_y) * Den + Res
                alpha == calc_alpha(radius, math_dist(center, <<x, y>>))
            IN  IF AlphaIsZero(alpha) THEN Transparent
                ELSE <<color_rgba[1], color_rgba[2], color_rgba[3],
                       RoundCoverage(color_rgba[4], alpha)>>
    IN  [image |-> NewImage(right_x - left_x, bottom_y - top_y,
                            [p \in PixelsOf(right_x - left_x, bottom_y - top_y) |->
                                pixel(p[1], p[2])]),
         destination |-> <<left_x, top_y>>]

_get_circle_image(center, radius, color) ==
    LET color_rgba == getcolor(color)
        left_x == Floor(center[1] - radius, Den)
        right_x == Ceil(center[1] + radius, Den)
        top_y == Floor(center[2] - radius, Den)
        bottom_y == Ceil(center[2] + radius, Den)
        pixel(x_in_layer, y_in_layer) ==
            LET x == (x_in_layer + left_x) * Den + Res
                y == (y_in_layer + top_y) * Den + Res
                alpha == calc_alpha(radius, math_dist(center, <<x, y>>))
            IN  IF AlphaIsZero(alpha) THEN Transparent
                ELSE <<color_rgba[1], color_rgba[2], color_rgba[3],
                       RoundCoverage(color_rgba[4], alpha)>>
    IN  [image |-> NewImage(right_x - left_x, bottom_y - top_y,
                            [p \in PixelsOf(right_x - left_x, bottom_y - top_y) |->
                                pixel(p[1], p[2])]),
         destination |-> <<left_x, top_y>>]

\* the centre (1/2, 1/2) of the cached stamp
Canonical == <<Res, Res>>

\* _get_circle_image_with_cache, given the cache; far fewer keys are used
\* than lru_cache holds, so nothing is evicted
CircleKey(center, radius, color) == <<center, radius, color>>
CachedCircleImage(cached, center, radius, color) ==
    IF CircleKey(center, radius, color) \in DOMAIN cached
    THEN cached[CircleKey(center, radius, color)]
    ELSE _get_circle_image(center, radius, color)

\* the cache after get_circle_image(center, radius, color)
CacheAfter(cached, center, radius, color) ==
    IF center = Canonical /\ CircleKey(center, radius, color) \notin DOMAIN cached
    THEN [k \in DOMAIN cached \cup {CircleKey(center, radius, color)} |->
            IF k \in DOMAIN cached THEN cached[k]
            ELSE _get_circle_image(center, radius, color)]
    ELSE cached

get_circle_image(cached, center, radius, color) ==
    IF center = Canonical THEN CachedCircleImage(cached, center, radius, color)
    ELSE _get_circle_image(center, radius, color)

-----------------------------------------------------------------------------
(* Line rasterizer *)

\* image.transpose(Image.Transpose.TRANSVERSE): the mirror image across the
\* diagonal from the top right to the bottom left
Transverse(img) ==
    NewImage(img.height, img.width,
             [p \in PixelsOf(img.height, img.width) |->
                 img.pixels[<<img.width - 1 - p[2], img.height - 1 - p[1]>>]])

\* PossibleRows with a plausible fault: the band is not widened by sec_alpha
PossibleRows_NoSec(line_xy, width, x_in_layer) ==
    LET x0 == line_xy[1][1]
        y0 == line_xy[1][2]
        x1 == line_xy[2][1]
        y1 == line_xy[2][2]
        delta_x == x1 - x0
        delta_y == y1 - y0
        sign == IF delta_x < 0 THEN -1 ELSE 1
        left_x == Floor(Min(x0, x1) - width \div 2, Den)
        top_y == Floor(Min(y0, y1) - width \div 2, Den)
        bottom_y == Ceil(Max(y0, y1) + width \div 2, Den)
        x == (x_in_layer + left_x) * Den + Res
        \* intersection_y = slope * (x - x0) + y0 is intersection / |delta_x|
        \* and sec_alpha is sqrt(delta_x^2 + delta_y^2) / |delta_x|
        intersection == sign * (delta_y * (x - x0) + y0 * delta_x)
        reach == width \div 2 + Res
        band == reach * reach * delta_x * delta_x
        down_border == RoundSurd(intersection, -1, band, Abs(delta_x) * Den)
        up_border == RoundSurd(intersection, 1, band, Abs(delta_x) * Den)
    IN  [min |-> Max(0, down_border - top_y),
         max |-> Min(bottom_y - top_y, up_border - top_y)]

\* the rows possible_min..(possible_max - 1) scanned in the column
\* x_in_layer of the patch of a segment with x1 # x0
PossibleRows(line_xy, width, x_in_layer) ==
    LET x0 == line_xy[1][1]
        y0 == line_xy[1][2]
        x1 == line_xy[2][1]
        y1 == line_xy[2][2]
        delta_x == x1 - x0
        delta_y == y1 - y0
        sign == IF delta_x < 0 THEN -1 ELSE 1
        left_x == Floor(Min(x0, x1) - width \div 2, Den)
        top_y == Floor(Min(y0, y1) - width \div 2, Den)
        bottom_y == Ceil(Max(y0, y1) + width \div 2, Den)
        x == (x_in_layer + left_x) * Den + Res
        \* intersection_y = slope * (x - x0) + y0 is intersection / |delta_x|
        \* and sec_alpha is sqrt(delta_x^2 + delta_y^2) / |delta_x|
        intersection == sign * (delta_y * (x - x0) + y0 * delta_x)
        reach == width \div 2 + Res
        band == reach * reach * (delta_x * delta_x + delta_y * delta_y)
        down_border == RoundSurd(intersection, -1, band, Abs(delta_x) * Den)
        up_border == RoundSurd(intersection, 1, band, Abs(delta_x) * Den)
    IN  [min |-> Max(0, down_border - top_y),
         max |-> Min(bottom_y - top_y, up_border - top_y)]

\* the scan of get_line_image for a segment with x1 # x0
LineScan(line_xy, color, width) ==
    LET x0 == line_xy[1][1]
        y0 == line_xy[1][2]
        x1 == line_xy[2][1]
        y1 == line_xy[2][2]
        color_rgba == getcolor(color)
        left_x == Floor(Min(x0, x1) - width \div 2, Den)
        right_x == Ceil(Max(x0, x1) + width \div 2, Den)
        top_y == Floor(Min(y0, y1) - width \div 2, Den)
        bottom_y == Ceil(Max(y0, y1) + width \div 2, Den)
        \* one pass of the inner loop body: the pixel it leaves, or the
        \* exception it raises
        scan(x_in_layer, y_in_layer) ==
            LET rows == PossibleRows(line_xy, width, x_in_layer)
                x == (x_in_layer + left_x) * Den + Res
                y == (y_in_layer + top_y) * Den + Res
                distance == distance_point_to_line_segment(<<x, y>>, line_xy)
                alpha == calc_alpha(width \div 2, distance.value)
            IN  IF y_in_layer < rows.min \/ y_in_layer >= rows.max
                THEN Returned(Transparent)
                ELSE IF distance.kind = "raise" THEN distance
                ELSE IF AlphaIsZero(alpha) THEN Returned(Transparent)
                ELSE Returned(<<color_rgba[1], color_rgba[2], color_rgba[3],
                                RoundCoverage(color_rgba[4], alpha)>>)
    IN  IF \E x_in_layer \in 0..(right_x - left_x - 1),
              y_in_layer \in 0..(bottom_y - top_y - 1) :
                scan(x_in_layer, y_in_layer).kind = "raise"
        THEN Raised("ZeroDivisionError")
        ELSE Returned([image |-> NewImage(right_x - left_x, bottom_y - top_y,
                           [p \in PixelsOf(right_x - left_x, bottom_y - top_y) |->
                               scan(p[1], p[2]).value]),
                       destination |-> <<left_x, top_y>>])

\* the segment with the x and y of both endpoints exchanged
SwapXY(line_xy) ==
    <<<<line_xy[1][2], line_xy[1][1]>>, <<line_xy[2][2], line_xy[2][1]>>>>

RECURSIVE get_line_image(_, _, _)
get_line_image(line_xy, color, width) ==
    LET delta_x == line_xy[2][1] - line_xy[1][1]
        delta_y == line_xy[2][2] - line_xy[1][2]
    IN  IF Abs(delta_y) > Abs(delta_x)
        THEN LET inner == get_line_image(SwapXY(line_xy), color, width)
             IN  IF inner.kind = "raise" THEN inner
                 ELSE Returned([image |-> Transverse(inner.value.image),
                                destination |-> <<inner.value.destination[2],
                                                  inner.value.destination[1]>>])
        ELSE IF delta_x = 0 THEN Raised("ZeroDivisionError")
        ELSE LineScan(line_xy, color, width)

-----------------------------------------------------------------------------
(* Unit conversion.  A length is a whole number of millimetres; 25.4 is    *)
(* 254 / 10.                                                               *)

mm_to_pixel(x, ppi) == Rat(x * 10 * ppi, 254)

pos_mm_to_pixel(pos, ppi, method) ==
    LET x == mm_to_pixel(pos[1], ppi)
        y == mm_to_pixel(pos[2], ppi)
    IN  CASE method = "None"  -> Returned(<<x, y>>)
          [] method = "floor" -> Returned(<<Floor(x.num, x.den), Floor(y.num, y.den)>>)
          [] method = "round" -> Returned(<<Round(x.num, x.den), Round(y.num, y.den)>>)
          [] OTHER            -> Raised("ValueError")

-----------------------------------------------------------------------------
(* Pillow's drawing calls on the destination buffer *)

\* ImageDraw.ellipse(xy, color, width=0) on an RGBA image: the pixels of the
\* box xy inside the inscribed ellipse are set to the colour
Ellipse(img, xy, color) ==
    LET w == xy[2][1] - xy[1][1]
        h == xy[2][2] - xy[1][2]
        inside(x, y) ==
            /\ xy[1][1] <= x /\ x <= xy[2][1]
            /\ xy[1][2] <= y /\ y <= xy[2][2]
            /\ (2 * x - xy[1][1] - xy[2][1]) * (2 * x - xy[1][1] - xy[2][1]) * h * h
                + (2 * y - xy[1][2] - xy[2][2]) * (2 * y - xy[1][2] - xy[2][2]) * w * w
                    <= w * w * h * h
    IN  NewImage(img.width, img.height,
                 [p \in PixelsOf(img.width, img.height) |->
                     IF inside(p[1], p[2]) THEN getcolor(color) ELSE img.pixels[p]])

\* ImageDraw.line(xy, color, width) on an RGBA image: the pixels within half
\* the width (half a pixel for a thin line) of the segment are set
Line(img, xy, color, width) ==
    LET reach == Max(width, 1)
        near(x, y) ==
            LET distance == distance_point_to_line_segment(<<x, y>>, xy).value
            IN  4 * distance.n <= reach * reach * distance.m
    IN  NewImage(img.width, img.height,
                 [p \in PixelsOf(img.width, img.height) |->
                     IF near(p[1], p[2]) THEN getcolor(color) ELSE img.pixels[p]])

\* ((a >> 8) + a) >> 8, Pillow's division by 255
ShiftForDiv255(a) == ((a \div 256) + a) \div 256

\* one pixel of ImagingAlphaComposite: src over dst
Over(src, dst) ==
    IF src[4] = 0 THEN dst
    ELSE LET blend == dst[4] * (255 - src[4])
             outa255 == src[4] * 255 + blend
             coef1 == (src[4] * 255 * 255 * 128) \div outa255
             coef2 == 255 * 128 - coef1
             channel(i) ==
                 ShiftForDiv255(src[i] * coef1 + dst[i] * coef2 + 128 * 128) \div 128
         IN  <<channel(1), channel(2), channel(3), ShiftForDiv255(outa255 + 128)>>

\* image.alpha_composite(source, dest): source over the part of the image
\* it overlaps; the rest of the source is dropped
AlphaComposite(img, source, dest) ==
    NewImage(img.width, img.height,
             [p \in PixelsOf(img.width, img.height) |->
                 IF /\ 0 <= p[1] - dest[1] /\ p[1] - dest[1] < source.width
                    /\ 0 <= p[2] - dest[2] /\ p[2] - dest[2] < source.height
                 THEN Over(source.pixels[<<p[1] - dest[1], p[2] - dest[2]>>], img.pixels[p])
                 ELSE img.pixels[p]])

-----------------------------------------------------------------------------
(* Draw dispatchers.  Each gives the buffer, the cache, the arguments of   *)
(* its alpha_composite call and the outcome after the call.                *)

NoComposite == [source |-> "none"]
Outcome(img, cached, composited, outcome) ==
    [image |-> img, cache |-> cached, composite |-> composited, ret |-> outcome]

\* draw_circle with a plausible fault: 'fast' rounds the centre instead of flooring it
draw_circle_RoundCentre(img, cached, center, radius, color, anti_alias) ==
    CASE anti_alias = "off" ->
            Outcome(Ellipse(img, <<<<Round(center[1] - radius, Den),
                                     Round(center[2] - radius, Den)>>,
                                   <<Round(center[1] + radius, Den),
                                     Round(center[2] + radius, Den)>>>>, color),
                    cached, NoComposite, Returned("None"))
      [] anti_alias = "fast" ->
            LET stamp == get_circle_image(cached, Canonical, radius, color)
                dest == <<Round(center[1], Den) + stamp.destination[1],
                          Round(center[2], Den) + stamp.destination[2]>>
            IN  Outcome(AlphaComposite(img, stamp.image, dest),
                        CacheAfter(cached, Canonical, radius, color),
                        [source |-> stamp.image, dest |-> dest], Returned("None"))
      [] anti_alias = "accurate" ->
            LET circle == get_circle_image(cached, center, radius, color)
            IN  Outcome(AlphaComposite(img, circle.image, circle.destination),
                        CacheAfter(cached, center, radius, color),
                        [source |-> circle.image, dest |-> circle.destination],
                        Returned("None"))
      [] OTHER -> Outcome(img, cached, NoComposite, Raised("ValueError"))

draw_circle(img, cached, center, radius, color, anti_alias) ==
    CASE anti_alias = "off" ->
            Outcome(Ellipse(img, <<<<Round(center[1] - radius, Den),
                                     Round(center[2] - radius, Den)>>,
                                   <<Round(center[1] + radius, Den),
                                     Round(center[2] + radius, Den)>>>>, color),
                    cached, NoComposite, Returned("None"))
      [] anti_alias = "fast" ->
            LET stamp == get_circle_image(cached, Canonical, radius, color)
                dest == <<Floor(center[1], Den) + stamp.destination[1],
                          Floor(center[2], Den) + stamp.destination[2]>>
            IN  Outcome(AlphaComposite(img, stamp.image, dest),
                        CacheAfter(cached, Canonical, radius, color),
                        [source |-> stamp.image, dest |-> dest], Returned("None"))
      [] anti_alias = "accurate" ->
            LET circle == get_circle_image(cached, center, radius, color)
            IN  Outcome(AlphaComposite(img, circle.image, circle.destination),
                        CacheAfter(cached, center, radius, color),
                        [source |-> circle.image, dest |-> circle.destination],
                        Returned("None"))
      [] OTHER -> Outcome(img, cached, NoComposite, Raised("ValueError"))

\* draw_line with a plausible fault: an unknown tier falls back to 'accurate'
draw_line_FallsBack(img, cached, line_xy, width, color, anti_alias) ==
    CASE anti_alias = "off" ->
            Outcome(Line(img, <<<<Floor(line_xy[1][1], Den), Floor(line_xy[1][2], Den)>>,
                                <<Floor(line_xy[2][1], Den), Floor(line_xy[2][2], Den)>>>>,
                         color, Round(width, Den)),
                    cached, NoComposite, Returned("None"))
      [] OTHER ->
            LET line == get_line_image(line_xy, color, width)
            IN  IF line.kind = "raise" THEN Outcome(img, cached, NoComposite, line)
                ELSE Outcome(AlphaComposite(img, line.value.image, line.value.destination),
                             cached,
                             [source |-> line.value.image, dest |-> line.value.destination],
                             Returned("None"))

draw_line(img, cached, line_xy, width, color, anti_alias) ==
    CASE anti_alias = "off" ->
            Outcome(Line(img, <<<<Floor(line_xy[1][1], Den), Floor(line_xy[1][2], Den)>>,
                                <<Floor(line_xy[2][1], Den), Floor(line_xy[2][2], Den)>>>>,
                         color, Round(width, Den)),
                    cached, NoComposite, Returned("None"))
      [] anti_alias = "accurate" ->
            LET line == get_line_image(line_xy, color, width)
            IN  IF line.kind = "raise" THEN Outcome(img, cached, NoComposite, line)
                ELSE Outcome(AlphaComposite(img, line.value.image, line.value.destination),
                             cached,
                             [source |-> line.value.image, dest |-> line.value.destination],
                             Returned("None"))
      [] OTHER -> Outcome(img, cached, NoComposite, Raised("ValueError"))

-----------------------------------------------------------------------------
(* Initial states: a destination buffer that is blank or already painted,  *)
(* no call made yet                                                        *)

BlankImage ==
    NewImage(ImageSize, ImageSize, [p \in PixelsOf(ImageSize, ImageSize) |-> Transparent])
PaintedImage ==
    NewImage(ImageSize, ImageSize,
             [p \in PixelsOf(ImageSize, ImageSize) |->
                 IF (p[1] + p[2]) % 2 = 0 THEN <<0, 255, 0, 255>> ELSE <<0, 255, 0, 64>>])

\* nothing called, no buffer, a cold cache: where the calls that take no
\* buffer start
NoImage == NewImage(0, 0, [p \in PixelsOf(0, 0) |-> Transparent])
Idle ==
    /\ call = NoCall
    /\ ret = NoRet
    /\ image = NoImage
    /\ composite = NoComposite
    /\ cache = <<>>

-----------------------------------------------------------------------------
(* The coverage function called on its own.  The function is pure, so a   *)
(* behaviour is one call from the idle state.                              *)

Radii == 0..MaxRadius
Distances == { Dist(s, n, m) : s \in {-1, 1}, n \in 0..MaxDist2, m \in 1..MaxDistDen }

CallCalcAlpha ==
    \E radius \in Radii, distance \in Distances :
        /\ call = NoCall
        /\ call' = [op |-> "calc_alpha", radius |-> radius, distance |-> distance]
        /\ ret' = Returned(calc_alpha(radius, distance))
        /\ UNCHANGED <<image, composite, cache>>

NextAlpha == CallCalcAlpha
SpecAlpha == Idle /\ [][NextAlpha]_vars

\* C1: for every radius r >= 0 and distance d, calc_alpha(r, d) lies in
\* [0, 1], is 1 when d <= r - 1/2, is 0 when d >= r + 1/2, and does not
\* increase with d: d <= d2 implies calc_alpha(r, d) >= calc_alpha(r, d2).
C1_CoverageContract ==
    call.op = "calc_alpha" =>
        /\ AlphaInUnit(ret.value)
        /\ DistLeqInt(call.distance, call.radius - Res) => AlphaIsOne(ret.value)
        /\ DistGeqInt(call.distance, call.radius + Res) => AlphaIsZero(ret.value)
        /\ \A d2 \in Distances :
              DistLeq(call.distance, d2) =>
                  AlphaGeq(ret.value, calc_alpha(call.radius, d2))

\* a call strictly inside the ramp, with an irrational distance
C1_Witness ==
    /\ call.op = "calc_alpha"
    /\ call.distance = Dist(1, 5, 2)
    /\ call.radius = 2
    /\ ~AlphaIsOne(ret.value)
    /\ ~AlphaIsZero(ret.value)

-----------------------------------------------------------------------------
(* The colour mix called on its own *)

MixValues == 0..MixDen
\* colours <<r, g, b, a>> whose green and blue channels agree
MixColours == { <<r, g, g, a>> : r \in MixValues, g \in MixValues, a \in MixValues }

CallMixColor ==
    \E foreground \in MixColours, background \in MixColours, alpha \in MixValues :
        /\ call = NoCall
        /\ call' = [op |-> "mix_color", foreground |-> foreground,
                    background |-> background, alpha |-> alpha]
        /\ ret' = mix_color(foreground, background, alpha)
        /\ UNCHANGED <<image, composite, cache>>

NextMix == CallMixColor
SpecMix == Idle /\ [][NextMix]_vars

\* C2: mix_color never raises, and whenever the resulting alpha
\* a_b + alpha * a_f - a_b * alpha * a_f is 0 it returns a pixel of alpha 0.
C2_MixNeverFails ==
    call.op = "mix_color" =>
        /\ ret.kind = "value"
        /\ MixDivisor(call.foreground[4], call.background[4], call.alpha) = 0
              => RatEq(ret.value[4], Rat(0, 1))

-----------------------------------------------------------------------------
(* The point-to-segment distance called on its own *)

Coords == 0..MaxCoord
Points == Coords \X Coords

CallDistanceSegment ==
    \E point \in Points, A \in Points, B \in Points :
        /\ call = NoCall
        /\ call' = [op |-> "distance_point_to_line_segment", point |-> point,
                    line_xy |-> <<A, B>>,
                    branch |-> segment_branch(point, <<A, B>>)]
        /\ ret' = distance_point_to_line_segment(point, <<A, B>>)
        /\ UNCHANGED <<image, composite, cache>>

NextDist == CallDistanceSegment
SpecDist == Idle /\ [][NextDist]_vars

DistEq(d1, d2) == DistLeq(d1, d2) /\ DistLeq(d2, d1)

\* the squared length of q - p, and (b - a) . (p - a)
Len2(p, q) == (q[1] - p[1]) * (q[1] - p[1]) + (q[2] - p[2]) * (q[2] - p[2])
Along(a, b, p) == (b[1] - a[1]) * (p[1] - a[1]) + (b[2] - a[2]) * (p[2] - a[2])

-----------------------------------------------------------------------------
(* The rasterizers called on their own.  A behaviour is one call.          *)

WarmCache ==
    [k \in { CircleKey(Canonical, radius, color) : radius \in Radii, color \in Colours }
        |-> _get_circle_image(k[1], k[2], k[3])]

CallGetCircleImage ==
    \E center \in Points, radius \in Radii, color \in Colours :
        /\ call = NoCall
        /\ call' = [op |-> "get_circle_image", center |-> center,
                    radius |-> radius, color |-> color]
        /\ ret' = Returned(get_circle_image(cache, center, radius, color))
        /\ cache' = CacheAfter(cache, center, radius, color)
        /\ UNCHANGED <<image, composite>>

LinePoints == (0..MaxLineCoord) \X (0..MaxLineCoord)
Widths == { 2 * h : h \in 1..MaxHalfWidth }

CallGetLineImage ==
    \E A \in LinePoints, B \in LinePoints, width \in Widths, color \in Colours :
        /\ call = NoCall
        /\ call' = [op |-> "get_line_image", line_xy |-> <<A, B>>,
                    color |-> color, width |-> width]
        /\ ret' = get_line_image(<<A, B>>, color, width)
        /\ UNCHANGED <<image, composite, cache>>

NextRaster == CallGetCircleImage \/ CallGetLineImage
SpecRaster == Idle /\ [][NextRaster]_vars

\* the centre of pixel i of a patch whose first pixel is at origin, in units
Centre(i, origin) == (i + origin) * Den + Res

\* a is round(color_alpha * alpha): within 1/2 of it, and even on a tie
IsNearest(color_alpha, alpha, a) ==
    /\ ReachesHalf(color_alpha, alpha, a)
    /\ ~ReachesHalf(color_alpha, alpha, a + 1) \/ IsHalf(color_alpha, alpha, a + 1)
    /\ IsHalf(color_alpha, alpha, a) \/ IsHalf(color_alpha, alpha, a + 1) => a % 2 = 0

\* the pixel a coverage leaves in a patch of the given colour
IsPixelOf(pixel, color, alpha) ==
    IF AlphaIsZero(alpha) THEN pixel = Transparent
    ELSE /\ <<pixel[1], pixel[2], pixel[3]>>
                = <<getcolor(color)[1], getcolor(color)[2], getcolor(color)[3]>>
         /\ IsNearest(getcolor(color)[4], alpha, pixel[4])

IsCircleCall == call.op = "get_circle_image" /\ ret.kind = "value"
IsLineCall == call.op = "get_line_image" /\ ret.kind = "value"

\* C5 as stated: every patch returned by get_circle_image (radius >= 0) and
\* by get_line_image (width > 0) is at least one pixel wide and high.
C5_PatchAtLeastOnePixel ==
    IsCircleCall \/ IsLineCall =>
        ret.value.image.width >= 1 /\ ret.value.image.height >= 1

\* C5 amended: every patch returned by get_line_image, and by
\* get_circle_image with radius > 0, is at least one pixel wide and high;
\* with radius 0 the circle patch is 0 wide when the centre's x is a whole
\* number of pixels and 1 wide otherwise, and likewise for its height and y.
C5_PatchSize ==
    /\ IsLineCall => ret.value.image.width >= 1 /\ ret.value.image.height >= 1
    /\ IsCircleCall /\ call.radius > 0 =>
          ret.value.image.width >= 1 /\ ret.value.image.height >= 1
    /\ IsCircleCall /\ call.radius = 0 =>
          /\ ret.value.image.width = IF call.center[1] % Den = 0 THEN 0 ELSE 1
          /\ ret.value.image.height = IF call.center[2] % Den = 0 THEN 0 ELSE 1

\* a circle of radius 0 centred on a pixel corner column: an empty patch
C5_Witness ==
    /\ IsCircleCall
    /\ call.radius = 0
    /\ call.center = <<Den, Res>>
    /\ ret.value.image.width = 0
    /\ ret.value.image.height = 1

\* the whole pixels whose centres can lie within reach of a circle
PixelRange == Floor(0 - MaxRadius - Den, Den)..Ceil(MaxCoord + MaxRadius + Den, Den)

\* C8: the circle patch is the box [floor(cx-r), ceil(cx+r)) x
\* [floor(cy-r), ceil(cy+r)); every pixel whose centre is nearer than
\* r + 1/2 to the circle's centre lies in it; a patch pixel of coverage > 0
\* holds (color.rgb, round(color.alpha * coverage)) and one of coverage 0 is
\* fully transparent.
C8_CirclePatch ==
    IsCircleCall =>
        LET patch == ret.value.image
            left == ret.value.destination[1]
            top == ret.value.destination[2]
            reach == call.radius + Res
        IN  /\ left = Floor(call.center[1] - call.radius, Den)
            /\ left + patch.width = Ceil(call.center[1] + call.radius, Den)
            /\ top = Floor(call.center[2] - call.radius, Den)
            /\ top + patch.height = Ceil(call.center[2] + call.radius, Den)
            /\ DOMAIN patch.pixels = (0..(patch.width - 1)) \X (0..(patch.height - 1))
            /\ \A x \in PixelRange, y \in PixelRange :
                  Len2(call.center, <<Centre(x, 0), Centre(y, 0)>>) < reach * reach
                      => /\ left <= x /\ x < left + patch.width
                         /\ top <= y /\ y < top + patch.height
            /\ \A p \in DOMAIN patch.pixels :
                  IsPixelOf(patch.pixels[p], call.color,
                            calc_alpha(call.radius,
                                       Dist(1, Len2(call.center,
                                                    <<Centre(p[1], left), Centre(p[2], top)>>),
                                            1)))

\* a circle whose patch has pixels of full, partial and zero coverage
C8_Witness ==
    /\ IsCircleCall
    /\ call.center = <<0, 0>>
    /\ call.radius = 3
    /\ \E p \in DOMAIN ret.value.image.pixels : ret.value.image.pixels[p] = Transparent
    /\ \E p \in DOMAIN ret.value.image.pixels : ret.value.image.pixels[p][4] = getcolor(call.color)[4]
    /\ \E p \in DOMAIN ret.value.image.pixels :
          /\ ret.value.image.pixels[p][4] > 0
          /\ ret.value.image.pixels[p][4] < getcolor(call.color)[4]

IsSteep(line_xy) ==
    Abs(line_xy[2][2] - line_xy[1][2]) > Abs(line_xy[2][1] - line_xy[1][1])

\* the coverage of the pixel p of a patch at destination, for a segment
LineCoverage(p, destination, line_xy, width) ==
    calc_alpha(width \div 2,
               distance_point_to_line_segment(
                   <<Centre(p[1], destination[1]), Centre(p[2], destination[2])>>,
                   line_xy).value)

\* C9: for a segment steeper than 45 degrees get_line_image returns the
\* patch of the coordinate-swapped segment mirrored across the main
\* diagonal, its offset swapped back: pixel (i, j) is pixel (j, i) of the
\* swapped segment's patch and holds the coverage of the point
\* (i + left + 1/2, j + top + 1/2) with respect to the original segment.
C9_SteepIsTransposed ==
    IsLineCall /\ IsSteep(call.line_xy) =>
        LET patch == ret.value.image
            swapped == get_line_image(SwapXY(call.line_xy), call.color, call.width).value
        IN  /\ patch.width = swapped.image.height
            /\ patch.height = swapped.image.width
            /\ ret.value.destination = <<swapped.destination[2], swapped.destination[1]>>
            /\ \A p \in DOMAIN patch.pixels :
                  /\ patch.pixels[p] = swapped.image.pixels[<<p[2], p[1]>>]
                  /\ IsPixelOf(patch.pixels[p], call.color,
                               LineCoverage(p, ret.value.destination,
                                            call.line_xy, call.width))

\* C10: for a segment with |dy| <= |dx| and dx # 0, every patch pixel whose
\* row is outside possible_min..(possible_max - 1) of its column has
\* coverage 0, so the patch is the one a scan of every row gives.
C10_SkippedRowsAreEmpty ==
    IsLineCall /\ ~IsSteep(call.line_xy) =>
        LET patch == ret.value.image
        IN  \A p \in DOMAIN patch.pixels :
              LET rows == PossibleRows(call.line_xy, call.width, p[1])
                  coverage == LineCoverage(p, ret.value.destination,
                                           call.line_xy, call.width)
              IN  /\ p[2] < rows.min \/ p[2] >= rows.max => AlphaIsZero(coverage)
                  /\ IsPixelOf(patch.pixels[p], call.color, coverage)

\* a slanted, non-steep segment with rows skipped above and below the band
C10_Witness ==
    /\ IsLineCall
    /\ call.line_xy = <<<<0, 0>>, <<4, 3>>>>
    /\ call.width = 2
    /\ \E p \in DOMAIN ret.value.image.pixels :
          p[2] < PossibleRows(call.line_xy, call.width, p[1]).min
    /\ \E p \in DOMAIN ret.value.image.pixels :
          p[2] >= PossibleRows(call.line_xy, call.width, p[1]).max
    /\ \E p \in DOMAIN ret.value.image.pixels : ret.value.image.pixels[p][4] > 0

-----------------------------------------------------------------------------
(* get_line_image run step by step, with its call stack.  call.frames is   *)
(* the stack of activations, the innermost last; an activation is the      *)
(* segment it was called with and the line of the source it stands at:     *)
(* line225 before the test of the swap, line226 waiting for the recursive  *)
(* call to return.  ret holds what the innermost finished activation       *)
(* returned or raised.  call.recursions counts the recursive calls made,   *)
(* call.slopes lists every delta_x by which a slope was computed.          *)

\* SwapTaken with a plausible fault: a diagonal segment is swapped too
SwapTaken_OrEqual(line_xy) ==
    Abs(line_xy[2][2] - line_xy[1][2]) >= Abs(line_xy[2][1] - line_xy[1][1])

\* the test of the axis swap
SwapTaken(line_xy) ==
    Abs(line_xy[2][2] - line_xy[1][2]) > Abs(line_xy[2][1] - line_xy[1][1])

Frame(line_xy, pc) == [line_xy |-> line_xy, pc |-> pc]
Top(frames) == frames[Len(frames)]
Pop(frames) == SubSeq(frames, 1, Len(frames) - 1)

\* the activation of the call made from outside
EnterGetLineImage ==
    \E A \in LinePoints, B \in LinePoints, width \in Widths, color \in Colours :
        /\ call = NoCall
        /\ call' = [op |-> "get_line_image", line_xy |-> <<A, B>>,
                    color |-> color, width |-> width,
                    frames |-> <<Frame(<<A, B>>, "line225")>>,
                    recursions |-> 0, slopes |-> <<>>]
        /\ UNCHANGED <<ret, image, composite, cache>>

\* the swap is taken: the activation calls get_line_image on the swapped
\* segment, or the interpreter refuses a call deeper than its limit
RecursiveCall ==
    /\ call.op = "get_line_image"
    /\ call.frames # <<>>
    /\ Top(call.frames).pc = "line225"
    /\ SwapTaken(Top(call.frames).line_xy)
    /\ IF Len(call.frames) >= RecursionLimit
       THEN /\ call' = [call EXCEPT !.frames = Pop(call.frames)]
            /\ ret' = Raised("RecursionError")
       ELSE /\ call' = [call EXCEPT
                   !.frames = Append([call.frames EXCEPT ![Len(call.frames)].pc = "line226"],
                                     Frame(SwapXY(Top(call.frames).line_xy), "line225")),
                   !.recursions = call.recursions + 1]
            /\ ret' = ret
    /\ UNCHANGED <<image, composite, cache>>

\* the swap is not taken: what the activation does to the stack when it
\* computes the slope, scans and leaves
ScanLeavesStack ==
    /\ call.op = "get_line_image"
    /\ call.frames # <<>>
    /\ Top(call.frames).pc = "line225"
    /\ ~SwapTaken(Top(call.frames).line_xy)
    /\ call' = [call EXCEPT
            !.frames = Pop(call.frames),
            !.slopes = Append(call.slopes, Top(call.frames).line_xy[2][1]
                                           - Top(call.frames).line_xy[1][1])]

\* the swap is not taken: the activation computes the slope and scans the
\* patch, and returns it or raises
ComputeSlopeAndScan ==
    /\ ScanLeavesStack
    /\ LET line_xy == Top(call.frames).line_xy
           delta_x == line_xy[2][1] - line_xy[1][1]
       IN  ret' = IF delta_x = 0 THEN Raised("ZeroDivisionError")
                  ELSE LineScan(line_xy, call.color, call.width)
    /\ UNCHANGED <<image, composite, cache>>

\* the recursive call is back: the activation flips the patch it got and
\* swaps the destination back, or lets the exception through
ReturnTransposed ==
    /\ call.op = "get_line_image"
    /\ call.frames # <<>>
    /\ Top(call.frames).pc = "line226"
    /\ ret # NoRet
    /\ call' = [call EXCEPT !.frames = Pop(call.frames)]
    /\ ret' = IF ret.kind = "raise" THEN ret
              ELSE Returned([image |-> Transverse(ret.value.image),
                             destination |-> <<ret.value.destination[2],
                                               ret.value.destination[1]>>])
    /\ UNCHANGED <<image, composite, cache>>

NextLineSteps ==
    EnterGetLineImage \/ RecursiveCall \/ ComputeSlopeAndScan \/ ReturnTransposed

\* a call runs on one thread to its end: once entered, the step its
\* innermost activation can take is taken.  A scan is taken exactly when its
\* stack step is, and its fairness is stated on that step.
LineStepsFairness ==
    /\ WF_vars(RecursiveCall)
    /\ WF_call(ScanLeavesStack)
    /\ WF_vars(ReturnTransposed)

SpecLineSteps == Idle /\ [][NextLineSteps]_vars /\ LineStepsFairness

LineCallRunning == call.op = "get_line_image" /\ call.frames # <<>>
LineCallOver == call.op = "get_line_image" /\ call.frames = <<>>

\* the step-by-step run ends with what the function get_line_image gives
LineStepsAgree ==
    LineCallOver => ret = get_line_image(call.line_xy, call.color, call.width)

\* C11: a call of get_line_image always comes to its end, having made at most
\* one recursive call: at most two activations are ever on the stack, the
\* segment of a recursive activation does not satisfy the swap condition
\* again, no call is refused for its depth, and for a segment whose endpoints
\* differ every delta_x a slope is computed by is nonzero.
C11_AtMostOneRecursiveCall ==
    /\ [](call.op = "get_line_image" =>
            /\ call.recursions <= 1
            /\ Len(call.frames) <= 2
            /\ \A i \in 2..Len(call.frames) : ~IsSteep(call.frames[i].line_xy)
            /\ ret # Raised("RecursionError")
            /\ call.line_xy[1] # call.line_xy[2] =>
                  \A i \in 1..Len(call.slopes) : call.slopes[i] # 0)
    /\ (LineCallRunning ~> LineCallOver)

\* a vertical segment (delta_x = 0): over, after one recursive call, with the
\* slope computed by the swapped delta_x = 3 and a patch returned
C11_Witness ==
    /\ LineCallOver
    /\ call.line_xy = <<<<2, 0>>, <<2, 3>>>>
    /\ call.recursions = 1
    /\ call.slopes = <<3>>
    /\ ret.kind = "value"

-----------------------------------------------------------------------------
(* The draw dispatchers and the unit conversion called on a destination    *)
(* buffer that is blank or already painted, with the stamp cache empty or  *)
(* filled by earlier calls.  A behaviour is one call.                      *)

CircleTiers == {"off", "fast", "accurate", "bogus"}
LineTiers == {"off", "accurate", "fast", "bogus"}
Methods == {"None", "floor", "round", "ceil"}
Ppis == {72, 96, 300}

Init ==
    /\ call = NoCall
    /\ ret = NoRet
    /\ image \in {BlankImage, PaintedImage}
    /\ composite = NoComposite
    /\ cache \in {<<>>, WarmCache}

DrawCircle ==
    \E center \in Points, radius \in Radii, color \in Colours, anti_alias \in CircleTiers :
        LET after == draw_circle(image, cache, center, radius, color, anti_alias)
        IN  /\ call = NoCall
            /\ call' = [op |-> "draw_circle", center |-> center, radius |-> radius,
                        color |-> color, anti_alias |-> anti_alias]
            /\ image' = after.image
            /\ cache' = after.cache
            /\ composite' = after.composite
            /\ ret' = after.ret

DrawPoints == (0..MaxDrawCoord) \X (0..MaxDrawCoord)

DrawLine ==
    \E A \in DrawPoints, B \in DrawPoints, width \in Widths, color \in Colours,
       anti_alias \in LineTiers :
        LET after == draw_line(image, cache, <<A, B>>, width, color, anti_alias)
        IN  /\ call = NoCall
            /\ call' = [op |-> "draw_line", line_xy |-> <<A, B>>, width |-> width,
                        color |-> color, anti_alias |-> anti_alias]
            /\ image' = after.image
            /\ cache' = after.cache
            /\ composite' = after.composite
            /\ ret' = after.ret

PosMmToPixel ==
    \E pos \in (0..MaxMm) \X (0..MaxMm), ppi \in Ppis, method \in Methods :
        /\ call = NoCall
        /\ call' = [op |-> "pos_mm_to_pixel", pos |-> pos, ppi |-> ppi, method |-> method]
        /\ ret' = pos_mm_to_pixel(pos, ppi, method)
        /\ UNCHANGED <<image, composite, cache>>

Next == DrawCircle \/ DrawLine \/ PosMmToPixel
Spec == Init /\ [][Next]_vars

\* C3: in the 'accurate' tier draw_line on a segment whose endpoints are
\* equal does not raise: a patch is made and composited.
C3_ZeroLengthLineDrawn ==
    /\ call.op = "draw_line"
    /\ call.anti_alias = "accurate"
    /\ call.line_xy[1] = call.line_xy[2]
    => ret = Returned("None") /\ composite # NoComposite

\* C6: draw_circle with a tier outside {off, fast, accurate}, draw_line with
\* a tier outside {off, accurate} ('fast' included) and pos_mm_to_pixel with
\* a method outside {None, floor, round} raise; when a draw call raises so,
\* the destination buffer is as it was.
C6_BadOptionRaises ==
    [][ /\ call'.op = "draw_circle" /\ call'.anti_alias \notin {"off", "fast", "accurate"}
            => ret' = Raised("ValueError") /\ image' = image
        /\ call'.op = "draw_line" /\ call'.anti_alias \notin {"off", "accurate"}
            => ret' = Raised("ValueError") /\ image' = image
        /\ call'.op = "pos_mm_to_pixel" /\ call'.method \notin {"None", "floor", "round"}
            => ret' = Raised("ValueError") ]_vars

\* draw_line asked for the 'fast' tier on a painted buffer
C6_Witness ==
    /\ call.op = "draw_line"
    /\ call.anti_alias = "fast"
    /\ call.line_xy = <<<<0, 1>>, <<2, 2>>>>
    /\ ret = Raised("ValueError")
    /\ image = PaintedImage

\* the centre (floor(cx) + 1/2, floor(cy) + 1/2)
Snapped(center) == <<Floor(center[1], Den) * Den + Res, Floor(center[2], Den) * Den + Res>>

\* C7: draw_circle in the 'fast' tier composites the same patch at the same
\* offset, and leaves the same buffer, as the 'accurate' tier called with
\* the centre (floor(cx) + 1/2, floor(cy) + 1/2).
C7_FastIsAccurateAtSnappedCentre ==
    [][ call'.op = "draw_circle" /\ call'.anti_alias = "fast" =>
            LET accurate == draw_circle(image, cache, Snapped(call'.center),
                                        call'.radius, call'.color, "accurate")
            IN  /\ composite' = accurate.composite
                /\ image' = accurate.image
                /\ ret' = accurate.ret ]_vars

\* a 'fast' circle centred off the canonical point, drawn over a painted buffer
C7_Witness ==
    /\ call.op = "draw_circle"
    /\ call.anti_alias = "fast"
    /\ call.center = <<3, 2>>
    /\ call.radius = 2
    /\ composite # NoComposite
    /\ composite.dest = <<0, 0>>
    /\ image # PaintedImage
    /\ image # BlankImage

====
